---------------------------- MODULE Spec2Model ----------------------------
(***************************************************************************)
(* A model of the poker simulator: the card model and its bit masks        *)
(* (DeckOfCards.py), the hand evaluator, the value cache and the           *)
(* multi-player resolver (PokerSimulator.py, PokerEvaluator.py, Poker.py)  *)
(* and a simulation trial (PokerSimulator.py).                             *)
(*                                                                         *)
(* Representation.  A card is a record [rank, suit] with rank in 2..14 and *)
(* suit in 0..3 (the values of the Rank and Suit enums).  Python integers  *)
(* that are bit masks over the 52-bit card space (PlayingCard.value,       *)
(* hash_cards) are represented by the set of their set bit positions: the  *)
(* integer 1 << n is {n}, bitwise OR is set union.  Hand values (at most   *)
(* 24 bits) are integers, and << and | on them are computed bit by bit.    *)
(*                                                                         *)
(* Specifications.  SpecHand: _eval_hand on one list of 5, 6 or 7 cards.   *)
(* SpecPair: _eval_hand on two 5-card hands.  SpecMask: hash_cards and     *)
(* unhash_cards.  SpecGame: precompute, get_value and evaluate of one      *)
(* PokerEvaluator over a 12-card universe.  SpecSim: the trials of         *)
(* PokerSimulator.run on the 52-card deck, evaluated without the table.    *)
(* SpecPack: HandRank.value_from on two lists of digits.  SpecRoyal:       *)
(* _eval_hand on a 5-card hand and on a suited run.  SpecDraw: a deck      *)
(* drawn until it is empty.  SpecRun: PokerSimulator.run over the 12-card  *)
(* universe, precompute and then the trials.  SpecSame: _eval_hand on a    *)
(* list and on the list reordered with its suits permuted.                 *)
(* SpecTally: PokerSimulator.run on the 52-card deck with its tallies.     *)
(***************************************************************************)
EXTENDS Integers, Sequences, FiniteSets, TLC

VARIABLES
    starting_deck, \* STARTING_DECK in its iteration order (a frozenset: any order)
    cards,         \* _eval_hand, hash_cards: the list of cards given
    other,         \* a second list of cards, compared with the first
    result,        \* _eval_hand: what the call on cards returned
    otherResult,   \* _eval_hand: what the call on other returned
    mask,          \* hash_cards: what the call on cards returned
    otherMask,     \* hash_cards: what the call on other returned
    unhashed,      \* unhash_cards: what the call on mask returned
    use_precomputed_values, \* PokerEvaluator.use_precomputed_values
    values,        \* PokerEvaluator.values: mask -> hand value
    rows,          \* the hand_values table of the store: records (cards, value)
    indices,       \* precompute: where itertools.combinations(deck, 5) stands
    pre,           \* precompute: position of the call
    looked,        \* get_value: the hand looked up and what the call returned
    players,       \* evaluate: the hole cards of each player
    community_cards, \* evaluate: the shared cards
    results,       \* evaluate: rank -> list of (index, hand)
    index,         \* evaluate: the player the loop stands at
    game,          \* evaluate: the PokerGameResult returned
    number_of_players, \* PokerSimulator.number_of_players
    deck_cards,    \* PokerSimulation.deck.cards of the trial in play
    hand_digits,   \* value_from: the list of values given
    other_digits,  \* value_from: a second list of values, compared with the first
    drawn_cards,   \* the cards that calls of draw() on deck_cards have returned
    iterations,    \* PokerSimulator.run: the number of trials asked for
    iter_count,    \* run: the trials completed
    win_count,     \* run: the trials one player won
    draw_count,    \* run: the trials that were draws
    ranks,         \* run: hand category -> number of trials
    opening_hands, \* run: mask of the winning hole cards -> number of wins
    pc             \* position of the caller

evalVars == <<cards, other, result, otherResult>>
maskVars == <<mask, otherMask, unhashed>>
cacheVars == <<use_precomputed_values, values, rows, indices, pre, looked>>
gameVars == <<players, community_cards, results, index, game>>
simVars == <<number_of_players, deck_cards>>
packVars == <<hand_digits, other_digits>>
tallyVars == <<iterations, iter_count, win_count, draw_count, ranks, opening_hands>>

vars == <<starting_deck, evalVars, maskVars, cacheVars, gameVars, simVars, packVars,
          drawn_cards, tallyVars, pc>>

-----------------------------------------------------------------------------
(* Enums and constants of the program *)

TWO == 2
KING == 13
ACE == 14

SPADE == 0
HEART == 1
DIAMOND == 2
CLUB == 3

Ranks == TWO..ACE
Suits == SPADE..CLUB

HEX_DIGIT_BITS == 4

HAND_RANK_HEX == 5
FIRST_KICKER_HEX == 4
SECOND_KICKER_HEX == 3
THIRD_KICKER_HEX == 2
FOURTH_KICKER_HEX == 1
FIFTH_KICKER_HEX == 0

ROYAL_FLUSH == 9
STRAIGHT_FLUSH == 8
FOUR_OF_A_KIND == 7
FULL_HOUSE == 6
FLUSH == 5
STRAIGHT == 4
THREE_OF_A_KIND == 3
TWO_PAIR == 2
ONE_PAIR == 1
HIGH_CARD == 0

PlayingCard(rank, suit) == [rank |-> rank, suit |-> suit]

STARTING_DECK == {PlayingCard(rank, suit) : rank \in Ranks, suit \in Suits}

\* STARTING_DECK listed by suit and then rank, and any list reversed
CanonicalOrder(S) ==
    LET key(c) == c.suit * 13 + c.rank
        pos(c) == Cardinality({d \in S : key(d) < key(c)}) + 1
    IN  [p \in 1..Cardinality(S) |-> CHOOSE c \in S : pos(c) = p]

Reverse(s) == [i \in 1..Len(s) |-> s[Len(s) + 1 - i]]

FullDeck == CanonicalOrder(STARTING_DECK)

-----------------------------------------------------------------------------
(* Python built-ins used by the evaluator *)

\* x << n on non-negative integers
Shl(x, n) == x * (2 ^ n)

\* x >> n on non-negative integers
Shr(x, n) == x \div (2 ^ n)

RECURSIVE BitOr(_, _)
\* x | y on non-negative integers, bit by bit
BitOr(x, y) ==
    IF x = 0 THEN y
    ELSE IF y = 0 THEN x
    ELSE (IF x % 2 = 1 \/ y % 2 = 1 THEN 1 ELSE 0) + 2 * BitOr(x \div 2, y \div 2)

\* sorted(s, key=lambda x: x.<field>.value, reverse=rev): a stable sort, so
\* cards of equal key keep the order they had in s (also when reversed).
SortedBy(s, fld, rev) ==
    LET n == Len(s)
        k(i) == IF rev THEN 0 - s[i][fld] ELSE s[i][fld]
        pos(i) == Cardinality({j \in 1..n : k(j) < k(i) \/ (k(j) = k(i) /\ j < i)}) + 1
    IN  [p \in 1..n |-> s[CHOOSE i \in 1..n : pos(i) = p]]

\* max(S) and min(S)
MaxOf(S) == CHOOSE x \in S : \A y \in S : y <= x
MinOf(S) == CHOOSE x \in S : \A y \in S : x <= y

\* s[:n]
Take(s, n) == IF Len(s) <= n THEN s ELSE SubSeq(s, 1, n)

\* s[n:] (0-based n)
Drop(s, n) == IF n >= Len(s) THEN <<>> ELSE SubSeq(s, n + 1, Len(s))

RECURSIVE GroupBy(_, _)
\* [list(group) for _, group in itertools.groupby(s, key=<field>)]: the
\* maximal runs of consecutive elements with equal key
GroupBy(s, fld) ==
    IF s = <<>> THEN <<>>
    ELSE LET key == s[1][fld]
             brk == {i \in 1..Len(s) : s[i][fld] # key}
             len == IF brk = {} THEN Len(s)
                    ELSE (CHOOSE i \in brk : \A j \in brk : i <= j) - 1
         IN  <<SubSeq(s, 1, len)>> \o GroupBy(Drop(s, len), fld)

RECURSIVE Flatten(_)
\* _flatten_groups: [card for group in groups for card in group]
Flatten(groups) ==
    IF groups = <<>> THEN <<>> ELSE Head(groups) \o Flatten(Tail(groups))

\* max(s, key=rank): the first element of greatest rank
MaxByRank(s) ==
    s[CHOOSE i \in 1..Len(s) :
        /\ \A j \in 1..Len(s) : s[j].rank <= s[i].rank
        /\ \A j \in 1..(i - 1) : s[j].rank < s[i].rank]

-----------------------------------------------------------------------------
(* PokerEvaluator: the helpers of _eval_hand *)

\* a faulty _get_flush_candidates that leaves the suit group unsorted
GetFlushCandidatesUnsorted(cs) ==
    LET groups == GroupBy(SortedBy(cs, "suit", FALSE), "suit")
        big == {i \in 1..Len(groups) : Len(groups[i]) >= 5}
    IN  IF big = {} THEN <<>>
        ELSE groups[CHOOSE i \in big : \A j \in big : i <= j]

\* a faulty _get_flush_candidates that looks at the first suit group only
GetFlushCandidatesOfFirstSuit(cs) ==
    LET groups == GroupBy(SortedBy(cs, "suit", FALSE), "suit")
    IN  IF groups = <<>> \/ Len(groups[1]) < 5 THEN <<>>
        ELSE SortedBy(groups[1], "rank", TRUE)

\* _get_flush_candidates: the first suit group with at least 5 cards, sorted
\* by rank descending (not truncated), or the empty list
GetFlushCandidates(cs) ==
    LET groups == GroupBy(SortedBy(cs, "suit", FALSE), "suit")
        big == {i \in 1..Len(groups) : Len(groups[i]) >= 5}
    IN  IF big = {} THEN <<>>
        ELSE SortedBy(groups[CHOOSE i \in big : \A j \in big : i <= j], "rank", TRUE)

\* a faulty _find_rank that never finds the card (the wheel is then missed)
FindNoRank(cs, rank) == <<>>

\* _find_rank: the first card of the rank, or None (<<>> here)
FindRank(cs, rank) ==
    LET at == {i \in 1..Len(cs) : cs[i].rank = rank}
    IN  IF at = {} THEN <<>>
        ELSE <<cs[CHOOSE i \in at : \A j \in at : i <= j]>>

RECURSIVE ScanStraight(_, _)
\* the loop of _eval_straight: extend the running straight while the next
\* card is exactly one rank below its last card, else restart it at that card
ScanStraight(straight, rest) ==
    IF rest = <<>> THEN straight
    ELSE LET card == Head(rest)
         IN  IF card.rank = straight[Len(straight)].rank - 1
             THEN ScanStraight(Append(straight, card), Tail(rest))
             ELSE ScanStraight(<<card>>, Tail(rest))

\* _eval_straight after the optional sort: cs is the list as scanned
EvalStraightSorted(cs) ==
    IF cs = <<>> THEN <<>>
    ELSE LET scanned == ScanStraight(<<cs[1]>>, Tail(cs))
             ace == FindRank(cs, ACE)
             straight ==
                 IF scanned[Len(scanned)].rank = TWO /\ ace # <<>>
                 THEN ace \o (IF Len(scanned) > 4
                              THEN Drop(scanned, Len(scanned) - 4)
                              ELSE scanned)
                 ELSE scanned
         IN  IF Len(straight) >= 5 THEN Take(straight, 5) ELSE <<>>

\* _eval_straight(cards, need_sort)
EvalStraight(cs, need_sort) ==
    EvalStraightSorted(IF need_sort /\ cs # <<>> THEN SortedBy(cs, "rank", TRUE) ELSE cs)

\* a faulty _get_rank_groups that sorts the groups by rank alone
GetRankGroupsByRank(cs) == Reverse(GroupBy(SortedBy(cs, "rank", FALSE), "rank"))

\* a faulty _get_rank_groups that puts the largest group first and leaves the
\* other groups in ascending order of rank
GetRankGroupsLargestFirst(cs) ==
    LET groups == GroupBy(SortedBy(cs, "rank", FALSE), "rank")
        n == Len(groups)
        top == CHOOSE i \in 1..n :
                   \A j \in 1..n : \/ Len(groups[i]) > Len(groups[j])
                                   \/ Len(groups[i]) = Len(groups[j]) /\ i >= j
    IN  <<groups[top]>> \o SubSeq(groups, 1, top - 1) \o SubSeq(groups, top + 1, n)

\* _get_rank_groups: the groups of equal rank, sorted by (size, rank) descending
GetRankGroups(cs) ==
    LET groups == GroupBy(SortedBy(cs, "rank", FALSE), "rank")
        n == Len(groups)
        before(i, j) ==
            \/ Len(groups[i]) > Len(groups[j])
            \/ Len(groups[i]) = Len(groups[j]) /\ groups[i][1].rank > groups[j][1].rank
            \/ /\ Len(groups[i]) = Len(groups[j])
               /\ groups[i][1].rank = groups[j][1].rank
               /\ i < j
        pos(i) == Cardinality({j \in 1..n : j # i /\ before(j, i)}) + 1
    IN  [p \in 1..n |-> groups[CHOOSE i \in 1..n : pos(i) = p]]

-----------------------------------------------------------------------------
(* DeckOfCards.py: card masks.  A mask is the set of its set bit positions. *)

\* PlayingCard.value: 1 << (suit.value * 12 + rank.value - 2)
CardValue(card) == {card.suit * 12 + card.rank - 2}

NotFound == [rank |-> 0, suit |-> 0]

\* DeckOfCards.get_card(value): CARDS_BY_VALUE.get(value), or ValueError
\* (NotFound).  CARDS_BY_VALUE = {card.value: card for card in STARTING_DECK}:
\* of the cards with one value, the last in iteration order stays in the dict.
GetCard(deck, value) ==
    LET at == {i \in 1..Len(deck) : CardValue(deck[i]) = value}
    IN  IF at = {} THEN NotFound
        ELSE deck[CHOOSE i \in at : \A j \in at : j <= i]

RECURSIVE HashCardsFrom(_, _)
\* functools.reduce(operator.__or__, [card.value for card in cards]), from
\* the i-th card on
HashCardsFrom(cs, i) ==
    IF i > Len(cs) THEN {} ELSE CardValue(cs[i]) \cup HashCardsFrom(cs, i + 1)

\* DeckOfCards.hash_cards(cards)
HashCards(cs) == HashCardsFrom(cs, 1)

RECURSIVE UnhashCards(_, _)
\* DeckOfCards.unhash_cards(value): the cards of the bits, lowest bit first
\* (card = value & -value; value -= card)
UnhashCards(deck, value) ==
    IF value = {} THEN <<>>
    ELSE LET low == CHOOSE b \in value : \A c \in value : b <= c
         IN  <<GetCard(deck, {low})>> \o UnhashCards(deck, value \ {low})

-----------------------------------------------------------------------------
(* Poker.py: HandRank.value_from *)

\* a faulty list of digit positions, least significant first
handrank_hexes_ascending ==
    <<FIFTH_KICKER_HEX, FOURTH_KICKER_HEX, THIRD_KICKER_HEX,
      SECOND_KICKER_HEX, FIRST_KICKER_HEX, HAND_RANK_HEX>>

handrank_hexes ==
    <<HAND_RANK_HEX, FIRST_KICKER_HEX, SECOND_KICKER_HEX,
      THIRD_KICKER_HEX, FOURTH_KICKER_HEX, FIFTH_KICKER_HEX>>

RECURSIVE ValueFromLoop(_, _, _)
\* the loop of value_from over zip(values, handrank_hexes), from index i on
ValueFromLoop(hand_rank_value, digits, i) ==
    IF i > Len(digits) \/ i > Len(handrank_hexes) THEN hand_rank_value
    ELSE ValueFromLoop(
             BitOr(hand_rank_value, Shl(digits[i], handrank_hexes[i] * HEX_DIGIT_BITS)),
             digits, i + 1)

\* HandRank.value_from(values), values being digits here
ValueFrom(digits) == ValueFromLoop(0, digits, 1)

\* PokerGameResult.get_hand_rank: the category digit of a hand value
GetHandRank(hand_value) == Shr(hand_value, HAND_RANK_HEX * HEX_DIGIT_BITS)

-----------------------------------------------------------------------------
(* PokerEvaluator._eval_hand *)

NoValue == 0 - 1

\* what _eval_hand returns: (hand_rank, hand); a failed assert raises instead,
\* which is recorded in err with no value and no hand
Returned(value, hand) == [value |-> value, hand |-> hand, err |-> ""]
Raised(message) == [value |-> NoValue, hand |-> <<>>, err |-> message]

\* the branches of _eval_hand below the straight check; sorted_cards is the
\* list cards as _eval_straight(cards) left it (sorted in place)
EvalGroups(sorted_cards, rank_groups) ==
    IF Len(rank_groups[1]) = 3
    THEN \* Three of a kind
         LET kickers == Take(SortedBy(Flatten(Tail(rank_groups)), "rank", TRUE), 2)
             three_of_a_kind == rank_groups[1] \o kickers
         IN  IF kickers[1].rank = kickers[2].rank
             THEN Raised("Missed a full house")
             ELSE Returned(ValueFrom(<<THREE_OF_A_KIND, three_of_a_kind[1].rank,
                                       kickers[1].rank, kickers[2].rank>>),
                           three_of_a_kind)
    ELSE IF Len(rank_groups[1]) = 2 /\ Len(rank_groups[2]) = 2
    THEN \* Two pair
         LET kicker == MaxByRank(Flatten(Drop(rank_groups, 2)))
         IN  Returned(ValueFrom(<<TWO_PAIR, rank_groups[1][1].rank,
                                   rank_groups[2][1].rank, kicker.rank>>),
                      rank_groups[1] \o rank_groups[2] \o <<kicker>>)
    ELSE IF Len(rank_groups[1]) = 2
    THEN \* One pair
         LET kickers == Take(SortedBy(Flatten(Tail(rank_groups)), "rank", TRUE), 3)
             one_pair == rank_groups[1] \o kickers
         IN  IF Len(one_pair) # 5
             THEN Raised("Incorrect one pair")
             ELSE Returned(ValueFrom(<<ONE_PAIR, rank_groups[1][1].rank, kickers[1].rank,
                                       kickers[2].rank, kickers[3].rank>>),
                           one_pair)
    ELSE \* High card
         LET top == Take(SortedBy(sorted_cards, "rank", TRUE), 5)
         IN  IF Len(top) # 5
             THEN Raised("Incorrect high card")
             ELSE Returned(ValueFrom(<<HIGH_CARD, top[1].rank, top[2].rank, top[3].rank,
                                       top[4].rank, top[5].rank>>),
                           top)

\* _eval_hand(cards): the categories in priority order, the first that matches
EvalHand(cs) ==
    LET flush_candidates == GetFlushCandidates(cs)
        straight_flush == EvalStraight(flush_candidates, FALSE)
        rank_groups == GetRankGroups(cs)
    IN  IF straight_flush # <<>> /\ straight_flush[2].rank = KING
        THEN \* Royal flush
             Returned(ValueFrom(<<ROYAL_FLUSH>>), straight_flush)
        ELSE IF straight_flush # <<>>
        THEN \* Straight flush
             Returned(ValueFrom(<<STRAIGHT_FLUSH, straight_flush[1].rank,
                                  straight_flush[2].rank>>),
                      straight_flush)
        ELSE IF Len(rank_groups[1]) = 4
        THEN \* Four of a kind
             LET kicker == MaxByRank(Flatten(Tail(rank_groups)))
             IN  Returned(ValueFrom(<<FOUR_OF_A_KIND, rank_groups[1][1].rank, kicker.rank>>),
                          Append(rank_groups[1], kicker))
        ELSE IF Len(rank_groups[1]) = 3 /\ Len(rank_groups[2]) >= 2
        THEN \* Full house
             LET full_house == rank_groups[1] \o Take(rank_groups[2], 2)
             IN  IF Len(full_house) # 5
                 THEN Raised("Incorrect full house")
                 ELSE Returned(ValueFrom(<<FULL_HOUSE, rank_groups[1][1].rank,
                                           rank_groups[2][1].rank>>),
                               full_house)
        ELSE IF flush_candidates # <<>>
        THEN \* Flush
             LET flush == Take(flush_candidates, 5)
             IN  Returned(ValueFrom(<<FLUSH, flush[1].rank, flush[2].rank, flush[3].rank,
                                      flush[4].rank, flush[5].rank>>),
                          flush)
        ELSE LET sorted_cards == SortedBy(cs, "rank", TRUE)
                 straight == EvalStraightSorted(sorted_cards)
             IN  IF straight # <<>>
                 THEN \* Straight
                      Returned(ValueFrom(<<STRAIGHT, straight[1].rank, straight[2].rank>>),
                               straight)
                 ELSE EvalGroups(sorted_cards, rank_groups)

-----------------------------------------------------------------------------
(* Inputs of the evaluator: lists of distinct cards of a bounded deck *)

\* the side suits (hearts, diamonds, clubs) hold the Ace and the SideRanks
\* lowest ranks; spades hold all 13 ranks
SideRanks == 2

HandDeckSet ==
    {c \in STARTING_DECK : c.suit = SPADE \/ c.rank = ACE \/ c.rank < TWO + SideRanks}

\* the bounded deck as a list, by suit and then rank
HandDeck == CanonicalOrder(HandDeckSet)

RECURSIVE Combinations(_, _, _)
\* itertools.combinations(deck, k), as lists, taking cards from index from on
Combinations(deck, from, k) ==
    IF k = 0 THEN {<<>>}
    ELSE UNION {{<<deck[i]>> \o rest : rest \in Combinations(deck, i + 1, k - 1)} :
                i \in from..(Len(deck) - k + 1)}

\* lists of 6 and 7 cards come from a smaller deck: cards of rank at most
\* WideTopRank or Ace, the side suits holding the Ace and the WideSideRanks
\* lowest ranks
WideTopRank == 6
WideSideRanks == 1

WideDeck ==
    SelectSeq(HandDeck,
              LAMBDA c : \/ c.rank = ACE
                         \/ c.rank <= WideTopRank /\ c.suit = SPADE
                         \/ c.rank < TWO + WideSideRanks)

HandInputs ==
    Combinations(HandDeck, 1, 5) \cup Combinations(WideDeck, 1, 6)
        \cup Combinations(WideDeck, 1, 7)

-----------------------------------------------------------------------------
(* The evaluator called on one list of cards *)

None == [value |-> NoValue, hand |-> <<>>, err |-> "none"]

NoMask == {0 - 1}

MasksIdle == mask = NoMask /\ otherMask = NoMask /\ unhashed = <<>>

EmptyValues == [m \in {} |-> 0]

NoLook == [hand |-> <<>>, value |-> NoValue, err |-> "none"]

NoGame ==
    [hand_value |-> NoValue, winning_hands |-> <<>>, winning_hole_cards |-> <<>>,
     err |-> "none"]

CacheIdle ==
    /\ use_precomputed_values = FALSE
    /\ values = EmptyValues
    /\ rows = {}
    /\ indices = <<>>
    /\ pre = "idle"
    /\ looked = NoLook

GameIdle ==
    /\ players = <<>> /\ community_cards = <<>>
    /\ results = EmptyValues /\ index = 0
    /\ game = NoGame

SimIdle == number_of_players = 0 /\ deck_cards = <<>>

PackIdle == hand_digits = <<>> /\ other_digits = <<>>
DrawIdle == drawn_cards = <<>>

TallyIdle ==
    /\ iterations = 0 /\ iter_count = 0
    /\ win_count = 0 /\ draw_count = 0
    /\ ranks = EmptyValues /\ opening_hands = EmptyValues

InitHand ==
    /\ CacheIdle
    /\ GameIdle
    /\ SimIdle
    /\ PackIdle
    /\ DrawIdle
    /\ TallyIdle
    /\ starting_deck = FullDeck
    /\ MasksIdle
    /\ cards \in HandInputs
    /\ other = <<>>
    /\ result = None
    /\ otherResult = None
    /\ pc = "ready"

\* rank, hand = PokerEvaluator._eval_hand(cards)
CallEvalHand ==
    /\ pc = "ready"
    /\ result' = EvalHand(cards)
    /\ pc' = "returned"
    /\ UNCHANGED <<starting_deck, tallyVars, drawn_cards, packVars, simVars, cards, other, otherResult, maskVars, cacheVars, gameVars>>

NextHand == CallEvalHand

SpecHand == InitHand /\ [][NextHand]_vars

\* the second list: cards of rank at most PairTopRank or Ace, in spades and in
\* the first PairSideSuits side suits
PairTopRank == 6
PairSideSuits == 1

PairDeck ==
    SelectSeq(HandDeck,
              LAMBDA c : (c.rank = ACE \/ c.rank <= PairTopRank) /\ c.suit <= PairSideSuits)

PairInputs == Combinations(PairDeck, 1, 5)

InitPair ==
    /\ CacheIdle
    /\ GameIdle
    /\ SimIdle
    /\ PackIdle
    /\ DrawIdle
    /\ TallyIdle
    /\ starting_deck = FullDeck
    /\ MasksIdle
    /\ cards \in PairInputs
    /\ other \in PairInputs
    /\ result = None
    /\ otherResult = None
    /\ pc = "ready"

\* rank, hand = PokerEvaluator._eval_hand(other), after the call on cards
CallEvalOther ==
    /\ pc = "returned"
    /\ other # <<>>
    /\ otherResult' = EvalHand(other)
    /\ pc' = "compared"
    /\ UNCHANGED <<starting_deck, tallyVars, drawn_cards, packVars, simVars, cards, other, result, maskVars, cacheVars, gameVars>>

NextPair == CallEvalHand \/ CallEvalOther

SpecPair == InitPair /\ [][NextPair]_vars

-----------------------------------------------------------------------------
(* Standard poker ranking of a 5-card hand, from the rules of the game *)

RankSet(h) == {h[i].rank : i \in 1..Len(h)}

RankCount(h, r) == Cardinality({i \in 1..Len(h) : h[i].rank = r})

IsWheel(h) == Len(h) = 5 /\ RankSet(h) = {ACE, 2, 3, 4, 5}

IsFlushHand(h) == \A i \in 1..Len(h) : h[i].suit = h[1].suit

IsStraightHand(h) ==
    /\ Cardinality(RankSet(h)) = 5
    /\ (MaxOf(RankSet(h)) - MinOf(RankSet(h)) = 4 \/ IsWheel(h))

\* the rank a straight is named after: Five for the wheel
StraightTop(h) == IF IsWheel(h) THEN 5 ELSE MaxOf(RankSet(h))

\* the largest number of cards of one rank, and the number of paired ranks
MaxCount(h) == MaxOf({RankCount(h, r) : r \in RankSet(h)})
PairCount(h) == Cardinality({r \in RankSet(h) : RankCount(h, r) = 2})

ManualCategory(h) ==
    IF IsStraightHand(h) /\ IsFlushHand(h)
    THEN (IF StraightTop(h) = ACE THEN ROYAL_FLUSH ELSE STRAIGHT_FLUSH)
    ELSE IF MaxCount(h) = 4 THEN FOUR_OF_A_KIND
    ELSE IF MaxCount(h) = 3 /\ PairCount(h) = 1 THEN FULL_HOUSE
    ELSE IF IsFlushHand(h) THEN FLUSH
    ELSE IF IsStraightHand(h) THEN STRAIGHT
    ELSE IF MaxCount(h) = 3 THEN THREE_OF_A_KIND
    ELSE IF PairCount(h) = 2 THEN TWO_PAIR
    ELSE IF PairCount(h) = 1 THEN ONE_PAIR
    ELSE HIGH_CARD

\* the ranks that break a tie within a category, most significant first:
\* a straight's top rank; otherwise the ranks by (count, rank) descending
TieBreakRanks(h) ==
    IF IsStraightHand(h) THEN <<StraightTop(h)>>
    ELSE LET R == RankSet(h)
             before(a, b) ==
                 \/ RankCount(h, a) > RankCount(h, b)
                 \/ RankCount(h, a) = RankCount(h, b) /\ a > b
             pos(r) == Cardinality({q \in R : before(q, r)}) + 1
         IN  [p \in 1..Cardinality(R) |-> CHOOSE r \in R : pos(r) = p]

PokerKey(h) == <<ManualCategory(h)>> \o TieBreakRanks(h)

\* lexicographic order on keys (keys of one category have one length)
KeyGreater(a, b) ==
    \E i \in 1..Len(a) :
        /\ i <= Len(b)
        /\ a[i] > b[i]
        /\ \A j \in 1..(i - 1) : a[j] = b[j]

Beats(a, b) == KeyGreater(PokerKey(a), PokerKey(b))
Ties(a, b) == PokerKey(a) = PokerKey(b)

\* a tie-break digit of a hand value
HexDigit(value, hex) == Shr(value, hex * HEX_DIGIT_BITS) % 16

-----------------------------------------------------------------------------
(* Claims about the evaluator on five cards *)

\* C1: Hand Value is monotonic with poker hand strength: for two 5-card hands
\* A and B of distinct deck cards, A beats B under standard poker ranking iff
\* _eval_hand(A).value > _eval_hand(B).value, and the values are equal iff
\* the hands tie.
C1_ValueMonotonic ==
    pc = "compared" =>
        /\ result.err = "" /\ otherResult.err = ""
        /\ Beats(cards, other) <=> result.value > otherResult.value
        /\ Ties(cards, other) <=> result.value = otherResult.value

\* C2: the wheel in non-flush suits evaluates to Straight with first tie-break
\* digit Five and second tie-break digit Four; its value is strictly below
\* that of a Six-high straight and strictly above that of any Ace-high High
\* Card hand.
C2_WheelIsFiveHigh ==
    (pc = "compared" /\ IsWheel(cards) /\ ~IsFlushHand(cards)) =>
        /\ GetHandRank(result.value) = STRAIGHT
        /\ HexDigit(result.value, FIRST_KICKER_HEX) = 5
        /\ HexDigit(result.value, SECOND_KICKER_HEX) = 4
        /\ (ManualCategory(other) = STRAIGHT /\ StraightTop(other) = 6)
               => result.value < otherResult.value
        /\ (ManualCategory(other) = HIGH_CARD /\ MaxOf(RankSet(other)) = ACE)
               => result.value > otherResult.value

\* C10: for every 5-card hand of distinct deck cards, the category digit of
\* the value _eval_hand returns (value >> 20) equals the category given by
\* standard manual classification.
C10_CategoryDigit ==
    (pc = "returned" /\ Len(cards) = 5) =>
        /\ result.err = ""
        /\ GetHandRank(result.value) = ManualCategory(cards)

\* C10 witness: a returned wheel, classified Straight by hand and by the code
C10_Witness ==
    /\ pc = "returned"
    /\ IsWheel(cards) /\ ~IsFlushHand(cards)
    /\ GetHandRank(result.value) = STRAIGHT

-----------------------------------------------------------------------------
(* Claims about the evaluator on six and seven cards *)

\* the hand values of all 5-card subsets, as itertools.combinations lists them
SubsetValues(cs) == {EvalHand(sub).value : sub \in Combinations(cs, 1, 5)}

\* C3: for every set of 6 or 7 distinct cards, _eval_hand called directly on
\* the whole set returns the same Hand Value as the maximum of _eval_hand over
\* all of its 5-card subsets.
C3_DirectEqualsSubsetMax ==
    (pc = "returned" /\ Len(cards) \in {6, 7}) =>
        /\ result.err = ""
        /\ result.value = MaxOf(SubsetValues(cards))

-----------------------------------------------------------------------------
(* Masks of two lists of cards *)

DeckOrders(deck) == {deck, Reverse(deck)}

InitMask ==
    /\ CacheIdle
    /\ GameIdle
    /\ SimIdle
    /\ PackIdle
    /\ DrawIdle
    /\ TallyIdle
    /\ starting_deck \in DeckOrders(FullDeck)
    /\ MasksIdle
    /\ cards \in PairInputs
    /\ other \in PairInputs
    /\ result = None
    /\ otherResult = None
    /\ pc = "ready"

\* DeckOfCards.hash_cards on each list
CallHashCards ==
    /\ pc = "ready"
    /\ mask' = HashCards(cards)
    /\ otherMask' = HashCards(other)
    /\ pc' = "hashed"
    /\ UNCHANGED <<starting_deck, tallyVars, drawn_cards, packVars, simVars, evalVars, unhashed, cacheVars, gameVars>>

\* DeckOfCards.unhash_cards on the mask of cards
CallUnhashCards ==
    /\ pc = "hashed"
    /\ unhashed' = UnhashCards(starting_deck, mask)
    /\ pc' = "unhashed"
    /\ UNCHANGED <<starting_deck, tallyVars, drawn_cards, packVars, simVars, evalVars, mask, otherMask, cacheVars, gameVars>>

NextMask == CallHashCards \/ CallUnhashCards

SpecMask == InitMask /\ [][NextMask]_vars

CardSet(cs) == {cs[i] : i \in 1..Len(cs)}

\* C5: mask bijection.  Each card maps to the single bit
\* 1 << (suit_ordinal * 13 + (rank_value - 2)), the bits of different cards
\* differ, get_card(card.value) == card for every card, two different card
\* sets never produce the same mask, and unhash_cards(hash_cards(S)) returns
\* exactly the cards of S.
C5_MaskBijection ==
    /\ pc \in {"hashed", "unhashed"} =>
          /\ \A c \in CardSet(cards) \cup CardSet(other) :
                /\ CardValue(c) = {c.suit * 13 + (c.rank - 2)}
                /\ GetCard(starting_deck, CardValue(c)) = c
                /\ \A d \in CardSet(cards) \cup CardSet(other) :
                       d # c => CardValue(d) # CardValue(c)
          /\ CardSet(cards) # CardSet(other) => mask # otherMask
    /\ pc = "unhashed" => CardSet(unhashed) = CardSet(cards)

-----------------------------------------------------------------------------
(* itertools.combinations(s, k), by positions *)

\* the increasing k-tuples of positions of a list of n elements
IndexCombos(n, k) == Combinations([i \in 1..n |-> i], 1, k)

\* the order in which itertools.combinations yields them: lexicographic
IdxLess(a, b) ==
    \E i \in 1..Len(a) : a[i] < b[i] /\ \A j \in 1..(i - 1) : a[j] = b[j]

\* a faulty successor that ends the enumeration when the first position
\* would move: only the tuples that begin at position 1 are yielded
NextIndicesFromFirst(idx, n) ==
    LET k == Len(idx)
        movable == {j \in 2..k : idx[j] # j + n - k}
    IN  IF movable = {} THEN <<>>
        ELSE LET j == MaxOf(movable)
             IN  [p \in 1..k |-> IF p < j THEN idx[p] ELSE idx[j] + 1 + (p - j)]

\* the tuple yielded after idx, or <<>> when idx was the last
NextIndices(idx, n) ==
    LET k == Len(idx)
        movable == {j \in 1..k : idx[j] # j + n - k}
    IN  IF movable = {} THEN <<>>
        ELSE LET j == MaxOf(movable)
             IN  [p \in 1..k |-> IF p < j THEN idx[p] ELSE idx[j] + 1 + (p - j)]

\* the elements of s at the positions idx
At(s, idx) == [p \in 1..Len(idx) |-> s[idx[p]]]

-----------------------------------------------------------------------------
(* PokerEvaluator: precompute, get_value, evaluate *)

\* d[k] = v on a dict
Put(d, k, v) == [m \in DOMAIN d \cup {k} |-> IF m = k THEN v ELSE d[m]]

\* get_value(hand): self.values[hash_cards(hand)], or KeyError
GetValue(vals, hand) ==
    LET hand_hash == HashCards(hand)
    IN  IF hand_hash \in DOMAIN vals
        THEN [value |-> vals[hand_hash], err |-> ""]
        ELSE [value |-> NoValue, err |-> "KeyError"]

\* the body of evaluate's loop for one player: (rank, hand) of the player's
\* best hand.  With an empty table _eval_hand is called on all the cards;
\* otherwise every 5-card combination is looked up and the first combination
\* of the greatest value is kept.
PlayerBest(vals, player, community) ==
    LET cs == player \o community
    IN  IF vals = EmptyValues
        THEN EvalHand(cs)
        ELSE LET combos == IndexCombos(Len(cs), 5)
                 look(idx) == GetValue(vals, At(cs, idx))
             IN  IF \E idx \in combos : look(idx).err # ""
                 THEN Raised("KeyError")
                 ELSE LET best_rank == MaxOf({look(idx).value : idx \in combos})
                          best == {idx \in combos : look(idx).value = best_rank}
                          first == CHOOSE idx \in best :
                                       \A o \in best : o = idx \/ IdxLess(idx, o)
                      IN  Returned(best_rank, At(cs, first))

\* a faulty append that keeps the last entry of a rank only
AppendOverwrite(res, rank, entry) == Put(res, rank, <<entry>>)

\* results[rank].append(entry) on a defaultdict(list)
AppendTo(res, rank, entry) ==
    Put(res, rank,
        IF rank \in DOMAIN res THEN Append(res[rank], entry) ELSE <<entry>>)

\* a faulty end of evaluate that takes the hole cards of the first players
\* instead of those at the winning indexes
GameResultByPosition(res, ps) ==
    IF DOMAIN res = {} THEN [NoGame EXCEPT !.err = "ValueError"]
    ELSE LET best_rank == MaxOf(DOMAIN res)
         IN  [hand_value |-> best_rank,
              winning_hands |-> [i \in 1..Len(res[best_rank]) |-> res[best_rank][i].hand],
              winning_hole_cards |-> [i \in 1..Len(res[best_rank]) |-> ps[i]],
              err |-> ""]

\* evaluate, after the loop: the result made of the entries of the best rank
GameResult(res, ps) ==
    IF DOMAIN res = {} THEN [NoGame EXCEPT !.err = "ValueError"]
    ELSE LET best_rank == MaxOf(DOMAIN res)
             winning_hands == [i \in 1..Len(res[best_rank]) |-> res[best_rank][i].hand]
             winning_indexes == [i \in 1..Len(res[best_rank]) |-> res[best_rank][i].index]
             winning_hole_cards ==
                 [i \in 1..Len(res[best_rank]) |-> ps[winning_indexes[i]]]
         IN  [hand_value |-> best_rank,
              winning_hands |-> winning_hands,
              winning_hole_cards |-> winning_hole_cards,
              err |-> ""]

\* PokerGameResult.is_draw
IsDraw(g) == Len(g.winning_hands) > 1

\* a set of positions as an increasing tuple
Increasing(S) ==
    [p \in 1..Cardinality(S) |-> CHOOSE x \in S : Cardinality({y \in S : y < x}) = p - 1]

\* the table the loop of precompute has built from a deck list when it ends:
\* each mask holds the value of the last combination enumerated among the
\* 5-card hands that hash to it (their cards lie on the bits of the mask)
BuiltTable(deck) ==
    LET n == Len(deck)
        masks == {HashCards(At(deck, idx)) : idx \in IndexCombos(n, 5)}
        pool(m) == {i \in 1..n : CardValue(deck[i]) \subseteq m}
        hands(m) == {Increasing(h) : h \in {g \in SUBSET pool(m) : Cardinality(g) = 5}}
        hits(m) == {idx \in hands(m) : HashCards(At(deck, idx)) = m}
        last(m) == CHOOSE idx \in hits(m) :
                       \A o \in hits(m) : o = idx \/ IdxLess(o, idx)
    IN  [m \in masks |-> EvalHand(At(deck, last(m))).value]

\* the rows of the hand_values table that hold a table
RowsOf(table) == {[cards |-> m, value |-> table[m]] : m \in DOMAIN table}

-----------------------------------------------------------------------------
(* The evaluator of a game: precompute, then lookups and evaluations *)

\* the cards in play: the deck of this universe, listed as STARTING_DECK
GameDeck ==
    <<PlayingCard(ACE, DIAMOND), PlayingCard(2, CLUB), PlayingCard(3, DIAMOND),
      PlayingCard(4, HEART), PlayingCard(5, SPADE), PlayingCard(6, SPADE),
      PlayingCard(KING, SPADE), PlayingCard(KING, HEART),
      PlayingCard(ACE, SPADE), PlayingCard(ACE, HEART),
      PlayingCard(2, HEART), PlayingCard(2, DIAMOND)>>

\* the community cards are 5 of the first BoardCards cards of GameDeck, and
\* 1..MaxPlayers players hold two of the other cards each
BoardCards == 6
MaxPlayers == 2

Without(s, h) == SelectSeq(s, LAMBDA c : c \notin {h[i] : i \in 1..Len(h)})

RECURSIVE HoleDeals(_, _)
HoleDeals(rest, n) ==
    IF n = 0 THEN {<<>>}
    ELSE UNION {{<<h>> \o more : more \in HoleDeals(Without(rest, h), n - 1)} :
                h \in Combinations(rest, 1, 2)}

Deals ==
    UNION {{[players |-> ps, community |-> b] :
               ps \in UNION {HoleDeals(Without(GameDeck, b), n) : n \in 1..MaxPlayers}} :
           b \in Combinations(Take(GameDeck, BoardCards), 1, 5)}

StoredTables == {RowsOf(BuiltTable(d)) : d \in DeckOrders(GameDeck)}

InitGame ==
    /\ MasksIdle
    /\ GameIdle
    /\ SimIdle
    /\ PackIdle
    /\ DrawIdle
    /\ TallyIdle
    /\ cards = <<>> /\ other = <<>> /\ result = None /\ otherResult = None
    /\ values = EmptyValues
    /\ indices = <<>>
    /\ pre = "idle"
    /\ looked = NoLook
    /\ pc = "ready"
    /\ \/ /\ use_precomputed_values = FALSE
          /\ rows = {}
          /\ starting_deck = GameDeck
       \/ /\ use_precomputed_values = TRUE
          /\ rows = {}
          /\ starting_deck \in DeckOrders(GameDeck)
       \/ /\ use_precomputed_values = TRUE
          /\ rows \in StoredTables
          /\ starting_deck = GameDeck

\* precompute(), up to the loop: return at once when precomputed values are
\* not used, load the rows of the store when it has any, else start
\* itertools.combinations(DeckOfCards().cards, 5)
PrecomputeCall ==
    /\ pc = "ready"
    /\ pre = "idle"
    /\ IF ~use_precomputed_values
       THEN pre' = "returned" /\ UNCHANGED <<values, indices>>
       ELSE IF rows # {}
       THEN /\ values' = [m \in {rec.cards : rec \in rows} |->
                              (CHOOSE rec \in rows : rec.cards = m).value]
            /\ pre' = "returned"
            /\ UNCHANGED indices
       ELSE /\ indices' = [i \in 1..5 |-> i]
            /\ pre' = "loop"
            /\ UNCHANGED values
    /\ UNCHANGED <<starting_deck, tallyVars, drawn_cards, packVars, simVars, evalVars, maskVars, gameVars,
                   use_precomputed_values, rows, looked, pc>>

\* one iteration of precompute's loop over the 5-card hands
PrecomputeLoop ==
    /\ pre = "loop"
    /\ LET r == EvalHand(At(starting_deck, indices))
       IN  IF r.err # ""
           THEN pre' = "raised" /\ UNCHANGED <<values, indices>>
           ELSE /\ values' = Put(values, HashCards(r.hand), r.value)
                /\ indices' = NextIndices(indices, Len(starting_deck))
                /\ pre' = IF indices' = <<>> THEN "persist" ELSE "loop"
    /\ UNCHANGED <<starting_deck, tallyVars, drawn_cards, packVars, simVars, evalVars, maskVars, gameVars,
                   use_precomputed_values, rows, looked, pc>>

\* precompute() after the loop: self.repository.create_table() raises
\* AttributeError, PokerRepository having no such method (it has
\* create_tables); nothing is inserted or committed
PrecomputePersist ==
    /\ pre = "persist"
    /\ pre' = "raised"
    /\ UNCHANGED <<starting_deck, tallyVars, drawn_cards, packVars, simVars, evalVars, maskVars, gameVars,
                   use_precomputed_values, values, rows, indices, looked, pc>>

PrecomputeOver == pre \in {"returned", "raised"}

\* get_value(hand) on a 5-card hand of the deck, once precompute is over
CallGetValue ==
    /\ pc = "ready"
    /\ PrecomputeOver
    /\ \E idx \in IndexCombos(Len(starting_deck), 5) :
          LET hand == At(starting_deck, idx)
              got == GetValue(values, hand)
          IN  looked' = [hand |-> hand, value |-> got.value, err |-> got.err]
    /\ pc' = "looked"
    /\ UNCHANGED <<starting_deck, tallyVars, drawn_cards, packVars, simVars, evalVars, maskVars, gameVars,
                   use_precomputed_values, values, rows, indices, pre>>

\* evaluate(players, community_cards) is called, once precompute is over
CallEvaluate ==
    /\ pc = "ready"
    /\ PrecomputeOver
    /\ \E deal \in Deals :
          /\ players' = deal.players
          /\ community_cards' = deal.community
    /\ results' = EmptyValues
    /\ index' = 1
    /\ pc' = "evaluating"
    /\ UNCHANGED <<starting_deck, tallyVars, drawn_cards, packVars, simVars, evalVars, maskVars, cacheVars, game>>

\* one iteration of evaluate's loop over enumerate(players)
EvaluatePlayer ==
    /\ pc = "evaluating"
    /\ index <= Len(players)
    /\ \E b \in {PlayerBest(values, players[index], community_cards)} :
          IF b.err # ""
          THEN /\ game' = [NoGame EXCEPT !.err = b.err]
               /\ pc' = "evaluated"
               /\ UNCHANGED <<results, index>>
          ELSE /\ results' = AppendTo(results, b.value,
                                      [index |-> index, hand |-> b.hand])
               /\ index' = index + 1
               /\ UNCHANGED <<game, pc>>
    /\ UNCHANGED <<starting_deck, tallyVars, drawn_cards, packVars, simVars, evalVars, maskVars, cacheVars, players, community_cards>>

\* evaluate returns the PokerGameResult
EvaluateReturn ==
    /\ pc = "evaluating"
    /\ index > Len(players)
    /\ game' = GameResult(results, players)
    /\ pc' = "evaluated"
    /\ UNCHANGED <<starting_deck, tallyVars, drawn_cards, packVars, simVars, evalVars, maskVars, cacheVars,
                   players, community_cards, results, index>>

NextGame ==
    \/ PrecomputeCall
    \/ PrecomputeLoop
    \/ PrecomputePersist
    \/ CallGetValue
    \/ CallEvaluate
    \/ EvaluatePlayer
    \/ EvaluateReturn

SpecGame == InitGame /\ [][NextGame]_vars

-----------------------------------------------------------------------------
(* Claims about the evaluator of a game *)

\* the best hand value of each player of the game in play, as evaluate's
\* loop computes it, and the players whose value is the greatest
PlayerValues ==
    [p \in 1..Len(players) |-> PlayerBest(values, players[p], community_cards).value]

BestPlayers(best) == {p \in DOMAIN best : \A q \in DOMAIN best : best[q] <= best[p]}

\* C4: for N >= 1 players and 5 community cards, evaluate() returns
\* hand_value equal to the maximum of the players' best hand values, its
\* winners are exactly the players whose best hand value equals that maximum,
\* each once, and is_draw() is true iff there is more than one such player.
C4_WinnersAreTheMaxima ==
    (pc = "evaluated" /\ game.err = "") =>
        \E best \in {PlayerValues} :
            /\ BestPlayers(best) # {}
            /\ \A p \in BestPlayers(best) : game.hand_value = best[p]
            /\ Len(game.winning_hole_cards) = Cardinality(BestPlayers(best))
            /\ {game.winning_hole_cards[i] : i \in 1..Len(game.winning_hole_cards)}
                   = {players[p] : p \in BestPlayers(best)}
            /\ IsDraw(game) <=> Cardinality(BestPlayers(best)) > 1

\* C4 witness: a game of two players with a populated table that one player
\* wins, the other player's best hand value being smaller
C4_Witness ==
    /\ pc = "evaluated" /\ game.err = ""
    /\ values # EmptyValues
    /\ Len(players) = 2
    /\ Cardinality(BestPlayers(PlayerValues)) = 1
    /\ ~IsDraw(game)

\* C6: cache consistency: after precompute() has built the table by
\* enumerating all 5-card combinations of the deck, get_value(combo) equals
\* the hand value _eval_hand returns for combo, for every 5-card combination
\* of distinct deck cards.
C6_CacheConsistency ==
    (pc = "looked" /\ use_precomputed_values /\ rows = {}) =>
        /\ looked.err = ""
        /\ looked.value = EvalHand(looked.hand).value

\* the community cards are the best 5-card hand of a player's seven cards
\* under the rules of poker: no 5 of the seven beat them
BoardIsBest(player) ==
    \A sub \in Combinations(player \o community_cards, 1, 5) :
        ~Beats(sub, community_cards)

\* C7: exact tie: when the 5 community cards are the best 5-card hand
\* available to each of two players, evaluate() returns a result with
\* is_draw() true and both players' hole cards in winning_hole_cards, whether
\* the cache is empty or populated.
C7_BoardPlaysForBoth ==
    (/\ pc = "evaluated"
     /\ Len(players) = 2
     /\ BoardIsBest(players[1])
     /\ BoardIsBest(players[2])) =>
        /\ game.err = ""
        /\ IsDraw(game)
        /\ \A p \in 1..2 :
               \E i \in 1..Len(game.winning_hole_cards) :
                   game.winning_hole_cards[i] = players[p]

\* the game of C8
PlayerA == <<PlayingCard(ACE, SPADE), PlayingCard(ACE, HEART)>>
PlayerB == <<PlayingCard(KING, SPADE), PlayingCard(KING, HEART)>>
WheelBoard ==
    <<PlayingCard(ACE, DIAMOND), PlayingCard(2, CLUB), PlayingCard(3, DIAMOND),
      PlayingCard(4, HEART), PlayingCard(5, SPADE)>>

AcesKingsWheelEvaluated ==
    /\ pc = "evaluated"
    /\ players = <<PlayerA, PlayerB>>
    /\ community_cards = WheelBoard

\* C8 as stated: for Player A = {As, Ah}, Player B = {Ks, Kh} and community
\* cards {Ad, 2c, 3d, 4h, 5s}, evaluate() returns Player A as the single
\* winner and is_draw() is false.
C8_PlayerAWinsAlone ==
    AcesKingsWheelEvaluated =>
        /\ game.err = ""
        /\ game.winning_hole_cards = <<PlayerA>>
        /\ ~IsDraw(game)

\* C8 as the code has it: in that game both players play the wheel of the
\* board, so evaluate() returns both as winners, Player A first, with the
\* hand value of a Straight, and is_draw() is true; with an empty table and
\* with a table built by precompute alike.
C8_BothPlayTheWheel ==
    AcesKingsWheelEvaluated =>
        /\ game.err = ""
        /\ game.winning_hole_cards = <<PlayerA, PlayerB>>
        /\ IsDraw(game)
        /\ GetHandRank(game.hand_value) = STRAIGHT
        /\ HexDigit(game.hand_value, FIRST_KICKER_HEX) = ACE
        /\ HexDigit(game.hand_value, SECOND_KICKER_HEX) = 5

\* C8 witness: that game evaluated from a populated table
C8_Witness ==
    /\ AcesKingsWheelEvaluated
    /\ values # EmptyValues
    /\ IsDraw(game)


-----------------------------------------------------------------------------
(* PokerSimulator.run with use_precomputed_values=False: the trials *)

\* the literals of PokerSimulation: at most 22 players, a deck of 52 cards,
\* 2 rounds of hole cards, 5 community cards
MaxSeats == 22
DeckSize == 52
HoleRounds == 2
CommunityDraws == 5

\* a faulty draw that hands out the bottom card while the top one is removed
DrawBottom(d) ==
    IF Len(d) = 0 THEN [card |-> NotFound, cards |-> d, err |-> "ValueError"]
    ELSE [card |-> d[1], cards |-> Take(d, Len(d) - 1), err |-> ""]

\* a faulty draw that pops the first card of the list
DrawFirst(d) ==
    IF Len(d) = 0 THEN [card |-> NotFound, cards |-> d, err |-> "ValueError"]
    ELSE [card |-> d[1], cards |-> Drop(d, 1), err |-> ""]

\* DeckOfCards.draw: self.cards.pop(), or ValueError on an empty deck
Draw(d) ==
    IF Len(d) = 0 THEN [card |-> NotFound, cards |-> d, err |-> "ValueError"]
    ELSE [card |-> d[Len(d)], cards |-> Take(d, Len(d) - 1), err |-> ""]

RECURSIVE DrawMany(_, _, _)
\* n calls of deck.draw() in a row: the cards drawn, in order, after drawn
DrawMany(d, drawn, n) ==
    IF n = 0 THEN [drawn |-> drawn, cards |-> d, err |-> ""]
    ELSE LET r == Draw(d)
         IN  IF r.err # "" THEN [drawn |-> drawn, cards |-> d, err |-> r.err]
             ELSE DrawMany(r.cards, Append(drawn, r.card), n - 1)

\* DeckOfCards().shuffle(): random.shuffle leaves the cards in any order; the
\* orders taken here are the ShuffleOrders strides s of the sorted deck (card
\* i of the shuffled deck is card i * s mod 53 of the sorted one)
ShuffleOrders == 4

Shuffles ==
    {[i \in 1..DeckSize |-> FullDeck[(i * s) % (DeckSize + 1)]] : s \in 1..ShuffleOrders}

\* a faulty check that lets one player more through
TooManyPlayersAbove(n) == n > MaxSeats + 1

\* the check of both __post_init__: number_of_players > 22
TooManyPlayers(n) == n > MaxSeats

InitSim ==
    /\ MasksIdle
    /\ GameIdle
    /\ CacheIdle
    /\ starting_deck = FullDeck
    /\ cards = <<>> /\ other = <<>> /\ result = None /\ otherResult = None
    /\ deck_cards = <<>>
    /\ PackIdle
    /\ DrawIdle
    /\ TallyIdle
    /\ number_of_players \in 0..(MaxSeats + 1)
    /\ pc = "new"

\* PokerSimulator(number_of_players, use_precomputed_values=False):
\* __post_init__ raises ValueError for more than 22 players
ConstructSimulator ==
    /\ pc = "new"
    /\ pc' = IF TooManyPlayers(number_of_players) THEN "ValueError" ELSE "ready"
    /\ UNCHANGED <<starting_deck, tallyVars, drawn_cards, packVars, evalVars, maskVars, cacheVars, gameVars, simVars>>

\* PokerSimulation(number_of_players, evaluator=evaluator) constructed by a
\* caller of its own: the deck is made and shuffled by the field's default
\* factory, then __post_init__ raises ValueError for more than 22 players
ConstructSimulation ==
    /\ pc = "new"
    /\ deck_cards' \in Shuffles
    /\ pc' = IF TooManyPlayers(number_of_players) THEN "ValueError" ELSE "run"
    /\ UNCHANGED <<starting_deck, tallyVars, drawn_cards, packVars, evalVars, maskVars, cacheVars, gameVars,
                   number_of_players>>

\* one pass of the loop of PokerSimulator.run begins (an exception of the
\* pass before ends the run):
\* PokerSimulation(number_of_players, evaluator=evaluator), with a fresh
\* shuffled deck and empty lists of players and community cards
NewSimulation ==
    /\ pc \in {"ready", "evaluated"}
    /\ pc = "evaluated" => game.err = ""
    /\ PrecomputeOver
    /\ deck_cards' \in Shuffles
    /\ players' = <<>>
    /\ community_cards' = <<>>
    /\ results' = EmptyValues
    /\ index' = 0
    /\ game' = NoGame
    /\ pc' = "run"
    /\ UNCHANGED <<starting_deck, tallyVars, drawn_cards, packVars, evalVars, maskVars, cacheVars, number_of_players>>

\* PokerSimulation.deal_hands: 2 rounds of one card to each player, then the
\* assert on the size of the deck
DealHands ==
    /\ pc = "run"
    /\ LET n == number_of_players
           r == DrawMany(deck_cards, <<>>, HoleRounds * n)
       IN  /\ deck_cards' = r.cards
           /\ IF r.err # ""
              THEN pc' = r.err /\ UNCHANGED players
              ELSE /\ players' = [p \in 1..n |->
                                     [k \in 1..HoleRounds |-> r.drawn[(k - 1) * n + p]]]
                   /\ pc' = IF Len(r.cards) = DeckSize - (2 * n)
                            THEN "hands dealt" ELSE "Invalid deal"
    /\ UNCHANGED <<starting_deck, tallyVars, drawn_cards, packVars, evalVars, maskVars, cacheVars,
                   community_cards, results, index, game, number_of_players>>

\* PokerSimulation.deal_community_cards: 5 draws
DealCommunityCards ==
    /\ pc = "hands dealt"
    /\ LET r == DrawMany(deck_cards, community_cards, CommunityDraws)
       IN  /\ deck_cards' = r.cards
           /\ community_cards' = r.drawn
           /\ pc' = IF r.err # "" THEN r.err ELSE "dealt"
    /\ UNCHANGED <<starting_deck, tallyVars, drawn_cards, packVars, evalVars, maskVars, cacheVars,
                   players, results, index, game, number_of_players>>

\* PokerSimulation.run: self.evaluator.evaluate(self.players, self.community_cards)
RunEvaluate ==
    /\ pc = "dealt"
    /\ results' = EmptyValues
    /\ index' = 1
    /\ pc' = "evaluating"
    /\ UNCHANGED <<starting_deck, tallyVars, drawn_cards, packVars, evalVars, maskVars, cacheVars,
                   players, community_cards, game, simVars>>

NextSim ==
    \/ ConstructSimulator
    \/ ConstructSimulation
    \/ PrecomputeCall
    \/ NewSimulation
    \/ DealHands
    \/ DealCommunityCards
    \/ RunEvaluate
    \/ EvaluatePlayer
    \/ EvaluateReturn

SpecSim == InitSim /\ [][NextSim]_vars

\* the cards dealt in the trial in play
DealtCards ==
    UNION {CardSet(players[p]) : p \in 1..Len(players)} \cup CardSet(community_cards)

\* C9: deck invariant: in every trial of a run (any number of iterations, any
\* 1 <= N <= 22), after dealing 2 cards to each of N players and 5 community
\* cards from that trial's fresh deck, the remaining deck size is
\* 52 - 2N - 5 and all 2N + 5 dealt cards are pairwise distinct.
C9_DeckInvariant ==
    (number_of_players \in 1..22) =>
        /\ pc \notin {"ValueError", "Invalid deal"}
        /\ pc \in {"dealt", "evaluating", "evaluated"} =>
              /\ Len(players) = number_of_players
              /\ \A p \in 1..Len(players) : Len(players[p]) = 2
              /\ Len(community_cards) = 5
              /\ Len(deck_cards) = 52 - 2 * number_of_players - 5
              /\ Cardinality(DealtCards) = 2 * number_of_players + 5
              /\ DealtCards \cap CardSet(deck_cards) = {}

\* C9 witness: a trial of 22 players dealt, 3 cards being left in the deck
C9_Witness ==
    /\ pc = "dealt"
    /\ number_of_players = 22
    /\ Len(deck_cards) = 3
    /\ Cardinality(DealtCards) = 49


-----------------------------------------------------------------------------
(* HandRank.value_from on the lists of values _eval_hand packs *)

\* the number of tie-break digits _eval_hand packs after each category
KickerCount(category) ==
    CASE category = ROYAL_FLUSH -> 0
      [] category \in {STRAIGHT_FLUSH, FOUR_OF_A_KIND, FULL_HOUSE, STRAIGHT} -> 2
      [] category \in {THREE_OF_A_KIND, TWO_PAIR} -> 3
      [] category = ONE_PAIR -> 4
      [] OTHER -> 5

\* the tie-break digits are rank values: the PackRanks lowest ranks and the Ace
PackRanks == 1

PackDigits == {r \in Ranks : r < TWO + PackRanks \/ r = ACE}

RECURSIVE Lists(_, _)
\* the lists of n elements of S
Lists(S, n) ==
    IF n = 0 THEN {<<>>}
    ELSE {<<x>> \o rest : x \in S, rest \in Lists(S, n - 1)}

\* [HandRank.X.value, rank.value, ...] as _eval_hand builds them
PackInputs ==
    UNION {{<<category>> \o kickers : kickers \in Lists(PackDigits, KickerCount(category))} :
           category \in HIGH_CARD..ROYAL_FLUSH}

InitPack ==
    /\ CacheIdle
    /\ GameIdle
    /\ SimIdle
    /\ MasksIdle
    /\ DrawIdle
    /\ TallyIdle
    /\ starting_deck = FullDeck
    /\ cards = <<>> /\ other = <<>>
    /\ result = None /\ otherResult = None
    /\ hand_digits \in PackInputs
    /\ other_digits \in PackInputs
    /\ pc = "ready"

\* hand_rank = HandRank.value_from(values), on each list
CallValueFrom ==
    /\ pc = "ready"
    /\ hand_digits # <<>>
    /\ result' = Returned(ValueFrom(hand_digits), <<>>)
    /\ otherResult' = Returned(ValueFrom(other_digits), <<>>)
    /\ pc' = "packed"
    /\ UNCHANGED <<starting_deck, tallyVars, drawn_cards, packVars, simVars, cards, other, maskVars, cacheVars, gameVars>>

NextPack == CallValueFrom

SpecPack == InitPack /\ [][NextPack]_vars

\* C11: category dominates tie-breaks: every tie-break digit packed into a
\* hand value is a rank value that fits in 4 bits, so of two hands whose
\* categories differ the one with the higher category has the strictly
\* greater hand value whatever the tie-break digits, and get_hand_rank()
\* recovers exactly the category that was packed.
C11_CategoryDominates ==
    pc = "packed" =>
        /\ \A i \in 2..Len(hand_digits) :
               /\ hand_digits[i] \in Ranks
               /\ hand_digits[i] < 2 ^ HEX_DIGIT_BITS
               /\ HexDigit(result.value, handrank_hexes[i]) = hand_digits[i]
        /\ GetHandRank(result.value) = hand_digits[1]
        /\ GetHandRank(otherResult.value) = other_digits[1]
        /\ hand_digits[1] > other_digits[1] => result.value > otherResult.value

\* C11 witness: a High Card hand of Aces only in its digits packed below a
\* One Pair hand of Twos only
C11_Witness ==
    /\ pc = "packed"
    /\ hand_digits = <<ONE_PAIR, TWO, TWO, TWO, TWO>>
    /\ other_digits = <<HIGH_CARD, ACE, ACE, ACE, ACE, ACE>>
    /\ result.value > otherResult.value


-----------------------------------------------------------------------------
(* _eval_hand on a hand of high cards and on a straight flush *)

\* the first hand is 5 cards of the RoyalRanks highest ranks in the first
\* RoyalSuits suits; the second is any 5 cards of consecutive ranks (the
\* wheel included) of one suit
RoyalRanks == 6
RoyalSuits == 2

RoyalDeck ==
    SelectSeq(FullDeck, LAMBDA c : c.rank > ACE - RoyalRanks /\ c.suit < RoyalSuits)

SuitedRuns ==
    {[i \in 1..5 |-> PlayingCard(low + i - 1, suit)] : low \in TWO..10, suit \in Suits}
        \cup {<<PlayingCard(TWO, suit), PlayingCard(3, suit), PlayingCard(4, suit),
                PlayingCard(5, suit), PlayingCard(ACE, suit)>> : suit \in Suits}

InitRoyal ==
    /\ CacheIdle
    /\ GameIdle
    /\ SimIdle
    /\ PackIdle
    /\ DrawIdle
    /\ TallyIdle
    /\ MasksIdle
    /\ starting_deck = FullDeck
    /\ cards \in Combinations(RoyalDeck, 1, 5)
    /\ other \in SuitedRuns
    /\ result = None
    /\ otherResult = None
    /\ pc = "ready"

SpecRoyal == InitRoyal /\ [][NextPair]_vars

\* C12: royal vs. straight flush: {Ten, Jack, Queen, King, Ace} of one suit
\* evaluates to Royal Flush; {Nine, Ten, Jack, Queen, King} of one suit
\* evaluates to Straight Flush with first tie-break King and second
\* tie-break Queen; and the Royal Flush value is strictly greater than the
\* value of every Straight Flush.
C12_RoyalOverStraightFlush ==
    pc = "compared" =>
        /\ (IsFlushHand(cards) /\ RankSet(cards) = 10..ACE) =>
               /\ result.err = ""
               /\ GetHandRank(result.value) = ROYAL_FLUSH
               /\ ManualCategory(other) = STRAIGHT_FLUSH =>
                      /\ otherResult.err = ""
                      /\ GetHandRank(otherResult.value) = STRAIGHT_FLUSH
                      /\ result.value > otherResult.value
        /\ (IsFlushHand(cards) /\ RankSet(cards) = 9..KING) =>
               /\ result.err = ""
               /\ GetHandRank(result.value) = STRAIGHT_FLUSH
               /\ HexDigit(result.value, FIRST_KICKER_HEX) = KING
               /\ HexDigit(result.value, SECOND_KICKER_HEX) = 12
        /\ (IsFlushHand(other) /\ RankSet(other) = 10..ACE) =>
               GetHandRank(otherResult.value) = ROYAL_FLUSH

\* C12 witness: a Royal Flush of hearts compared with the wheel of clubs, the
\* Straight Flush of the greatest value
C12_Witness ==
    /\ pc = "compared"
    /\ IsFlushHand(cards) /\ RankSet(cards) = 10..ACE /\ cards[1].suit = HEART
    /\ IsWheel(other) /\ other[1].suit = CLUB
    /\ GetHandRank(result.value) = ROYAL_FLUSH
    /\ GetHandRank(otherResult.value) = STRAIGHT_FLUSH


-----------------------------------------------------------------------------
(* Claims about the result of a game *)

\* the best hand of each player of the game in play, as evaluate's loop
\* computes it
PlayerHands ==
    [p \in 1..Len(players) |-> PlayerBest(values, players[p], community_cards).hand]

\* C13: game result pairing invariant: every result returned by evaluate()
\* has winning_hands and winning_hole_cards of equal length >= 1, and for
\* every index i winning_hole_cards[i] is the hole hand of the player whose
\* best hand is winning_hands[i] (winning_hands[i] is 5 cards drawn from that
\* player's hole cards plus the community cards).
C13_WinnersPaired ==
    (pc = "evaluated" /\ game.err = "") =>
        /\ Len(game.winning_hands) = Len(game.winning_hole_cards)
        /\ Len(game.winning_hands) >= 1
        /\ \E hands \in {PlayerHands} :
               \A i \in 1..Len(game.winning_hands) :
                   /\ \E p \in 1..Len(players) :
                          /\ players[p] = game.winning_hole_cards[i]
                          /\ hands[p] = game.winning_hands[i]
                   /\ Len(game.winning_hands[i]) = 5
                   /\ Cardinality(CardSet(game.winning_hands[i])) = 5
                   /\ CardSet(game.winning_hands[i]) \subseteq
                          CardSet(game.winning_hole_cards[i] \o community_cards)

\* C13 witness: the second of two players wins alone with a hand that holds
\* one of that player's hole cards
C13_Witness ==
    /\ pc = "evaluated" /\ game.err = ""
    /\ Len(players) = 2
    /\ game.winning_hole_cards = <<players[2]>>
    /\ CardSet(game.winning_hands[1]) \cap CardSet(players[2]) # {}


-----------------------------------------------------------------------------
(* Claims about the store of precomputed values *)

\* C14: build, persist, reload: when precompute() runs with precomputed
\* values enabled against a store that holds no entries, it completes with
\* every computed (mask, value) entry inserted into the store and committed,
\* so that a later precompute() on the same store loads exactly that table.
\* Stated of a precompute() that is over: it has returned, and the store
\* holds exactly the rows of the table in memory.
C14_BuildPersistReload ==
    (use_precomputed_values /\ PrecomputeOver) =>
        /\ pre = "returned"
        /\ rows # {}
        /\ rows = RowsOf(values)

\* the table in memory is the one precompute's loop has built over all the
\* 5-card combinations of the deck
TableBuilt == use_precomputed_values /\ pre = "raised" /\ indices = <<>>

\* C15: a cache miss is unreachable: once precompute() has populated the
\* table by exhaustive enumeration of the deck's 5-card combinations,
\* get_value succeeds for every list of 5 distinct deck cards, so the cached
\* path of evaluate() never fails with a missing key for a player's 7 cards.
C15_NoCacheMiss ==
    TableBuilt =>
        /\ values # EmptyValues
        /\ pc = "looked" => looked.err = "" /\ looked.value = values[HashCards(looked.hand)]
        /\ pc = "evaluated" => game.err = ""
        /\ pc = "evaluating" =>
               \A p \in 1..Len(players) :
                   \A idx \in IndexCombos(7, 5) :
                       HashCards(At(players[p] \o community_cards, idx)) \in DOMAIN values

\* C15 witness: with the built table, evaluate() has returned for a player
\* whose 7 cards hold two cards of one mask bit (the ace of spades and the
\* two of hearts)
C15_Witness ==
    /\ TableBuilt
    /\ pc = "evaluated" /\ game.err = ""
    /\ \E p \in 1..Len(players) :
           {PlayingCard(ACE, SPADE), PlayingCard(2, HEART)}
               \subseteq CardSet(players[p] \o community_cards)

-----------------------------------------------------------------------------
(* Claims about the deck of a trial *)

\* the draws made from the deck of the trial in play
DrawsMade == IF deck_cards = <<>> THEN 0 ELSE DeckSize - Len(deck_cards)

\* C16: player-count validation: constructing a simulation with more than 22
\* players fails with an error at construction, before any card is drawn
\* from the deck, and for every player count from 1 to 22 a trial deals all
\* 2N + 5 cards without ever drawing from an empty deck.
C16_PlayerCountValidation ==
    /\ number_of_players > 22 =>
           /\ pc \in {"new", "ValueError"}
           /\ DrawsMade = 0
           /\ players = <<>> /\ community_cards = <<>>
    /\ number_of_players \in 1..22 =>
           /\ pc # "ValueError"
           /\ pc = "hands dealt" => DrawsMade = 2 * number_of_players
           /\ pc \in {"dealt", "evaluating", "evaluated"} =>
                  /\ DrawsMade = 2 * number_of_players + 5
                  /\ Len(players) * HoleRounds + Len(community_cards) = DrawsMade

\* C16 witness: the construction of a simulation of 23 players has failed
\* with the shuffled deck whole
C16_Witness ==
    /\ number_of_players = 23
    /\ pc = "ValueError"
    /\ Len(deck_cards) = DeckSize

-----------------------------------------------------------------------------
(* A deck drawn until it is empty *)

\* deck = DeckOfCards(): self.cards = list(STARTING_DECK), in the order the
\* frozenset iterates
InitDraw ==
    /\ MasksIdle
    /\ GameIdle
    /\ CacheIdle
    /\ PackIdle
    /\ DrawIdle
    /\ TallyIdle
    /\ cards = <<>> /\ other = <<>> /\ result = None /\ otherResult = None
    /\ number_of_players = 0
    /\ starting_deck \in Shuffles
    /\ deck_cards = starting_deck
    /\ pc = "fresh"

\* deck.shuffle() on the fresh deck
CallShuffle ==
    /\ pc = "fresh"
    /\ deck_cards' \in Shuffles
    /\ pc' = "shuffled"
    /\ UNCHANGED <<starting_deck, tallyVars, drawn_cards, packVars, evalVars, maskVars, cacheVars,
                   gameVars, number_of_players>>

\* deck.draw(), the card returned being kept by the caller; a caller that
\* catches the ValueError may call again
CallDraw ==
    /\ pc \in {"fresh", "shuffled", "drawn", "ValueError"}
    /\ LET r == Draw(deck_cards)
       IN  /\ deck_cards' = r.cards
           /\ IF r.err # ""
              THEN pc' = r.err /\ UNCHANGED drawn_cards
              ELSE pc' = "drawn" /\ drawn_cards' = Append(drawn_cards, r.card)
    /\ UNCHANGED <<starting_deck, tallyVars, packVars, evalVars, maskVars, cacheVars,
                   gameVars, number_of_players>>

NextDraw ==
    \/ CallShuffle
    \/ CallDraw

SpecDraw == InitDraw /\ [][NextDraw]_vars

\* C17: draw() on a non-empty deck removes exactly the last card of the
\* sequence and returns it, leaving the other cards and their order
\* unchanged; draw() on an empty deck fails with an error and leaves the deck
\* empty, so exactly 52 draws succeed on a fresh deck whether or not it was
\* shuffled.
C17_DrawSemantics ==
    /\ [][CallDraw =>
            IF deck_cards # <<>>
            THEN /\ pc' = "drawn"
                 /\ Len(deck_cards') = Len(deck_cards) - 1
                 /\ \A i \in 1..Len(deck_cards') : deck_cards'[i] = deck_cards[i]
                 /\ drawn_cards' = drawn_cards \o <<deck_cards[Len(deck_cards)]>>
            ELSE /\ pc' = "ValueError"
                 /\ deck_cards' = <<>>
                 /\ drawn_cards' = drawn_cards]_vars
    /\ [](/\ Len(drawn_cards) + Len(deck_cards) = 52
          /\ pc = "ValueError" => Len(drawn_cards) = 52 /\ deck_cards = <<>>
          /\ pc \in {"fresh", "shuffled", "drawn"} /\ Len(drawn_cards) < 52
                 => deck_cards # <<>>)

\* C17 witness: the 53rd draw on a shuffled deck has failed, 52 distinct
\* cards having been drawn in another order than that of the fresh deck
C17_Witness ==
    /\ pc = "ValueError"
    /\ Len(drawn_cards) = 52
    /\ Cardinality(CardSet(drawn_cards)) = 52
    /\ Reverse(drawn_cards) # starting_deck

-----------------------------------------------------------------------------
(* PokerSimulator.run on the cards in play: precompute, then the trials *)

\* a faulty order that lets the trials begin once precompute has begun
PrecomputeBegun == pre # "idle"

\* evaluator.precompute() has returned to run (an exception ends the run)
PrecomputeReturned == pre = "returned"

InitRun ==
    /\ MasksIdle
    /\ GameIdle
    /\ PackIdle
    /\ DrawIdle
    /\ TallyIdle
    /\ cards = <<>> /\ other = <<>> /\ result = None /\ otherResult = None
    /\ deck_cards = <<>>
    /\ number_of_players \in 1..MaxPlayers
    /\ values = EmptyValues
    /\ indices = <<>>
    /\ pre = "idle"
    /\ looked = NoLook
    /\ pc = "ready"
    /\ \/ /\ use_precomputed_values = FALSE
          /\ rows = {}
          /\ starting_deck = GameDeck
       \/ /\ use_precomputed_values = TRUE
          /\ rows = {}
          /\ starting_deck \in DeckOrders(GameDeck)
       \/ /\ use_precomputed_values = TRUE
          /\ rows \in StoredTables
          /\ starting_deck = GameDeck

\* one pass of the loop of run, up to the call of evaluate:
\* PokerSimulation(number_of_players, evaluator=evaluator).run() deals the
\* hole cards and the community cards and calls
\* evaluator.evaluate(players, community_cards)
RunTrial ==
    /\ pc \in {"ready", "next"}
    /\ PrecomputeReturned
    /\ \E deal \in Deals :
          /\ Len(deal.players) = number_of_players
          /\ players' = deal.players
          /\ community_cards' = deal.community
    /\ results' = EmptyValues
    /\ index' = 1
    /\ game' = NoGame
    /\ pc' = "evaluating"
    /\ UNCHANGED <<starting_deck, tallyVars, drawn_cards, packVars, evalVars, maskVars, cacheVars,
                   simVars>>

\* the rest of the pass: the result evaluate returned is tallied and the
\* loop goes on to its next pass (an exception of evaluate ends the run)
TallyResult ==
    /\ pc = "evaluated"
    /\ game.err = ""
    /\ players' = <<>>
    /\ community_cards' = <<>>
    /\ results' = EmptyValues
    /\ index' = 0
    /\ game' = NoGame
    /\ pc' = "next"
    /\ UNCHANGED <<starting_deck, tallyVars, drawn_cards, packVars, evalVars, maskVars, cacheVars,
                   simVars>>

NextRun ==
    \/ PrecomputeCall
    \/ PrecomputeLoop
    \/ PrecomputePersist
    \/ RunTrial
    \/ EvaluatePlayer
    \/ EvaluateReturn
    \/ TallyResult

SpecRun == InitRun /\ [][NextRun]_vars

\* a trial of the run has started
TrialStarted == pc \in {"evaluating", "evaluated", "next"}

\* C18: build-then-run ordering: in PokerSimulator.run, no trial calls
\* evaluate() or get_value() before precompute() has returned, and the
\* in-memory value table is never modified after the first trial has
\* started, so every lookup in a run sees the same complete table.
C18_BuildThenRun ==
    /\ [](TrialStarted =>
              /\ pre = "returned"
              /\ IF use_precomputed_values
                 THEN rows # {} /\ RowsOf(values) = rows
                 ELSE values = EmptyValues)
    /\ [][TrialStarted => values' = values /\ pre' = pre]_vars

\* C18 witness: a trial of two players has been evaluated with the table
\* loaded from the store, and the loop is at its next pass
C18_Witness ==
    /\ pc = "next"
    /\ number_of_players = 2
    /\ use_precomputed_values
    /\ values # EmptyValues

-----------------------------------------------------------------------------
(* Claims about the hand _eval_hand returns *)

\* C19: for every input of 5, 6 or 7 distinct deck cards, no assertion inside
\* _eval_hand fails (in particular the two three-of-a-kind kickers always
\* have different ranks, so 'Missed a full house' never fires), and the
\* returned hand consists of exactly 5 distinct cards taken from the input.
C19_NoAssertionFails ==
    (pc = "returned" /\ Len(cards) \in 5..7) =>
        /\ result.err = ""
        /\ Len(result.hand) = 5
        /\ Cardinality(CardSet(result.hand)) = 5
        /\ CardSet(result.hand) \subseteq CardSet(cards)
        /\ GetHandRank(result.value) = THREE_OF_A_KIND =>
               result.hand[4].rank # result.hand[5].rank

\* C19 witness: three of a kind returned for 7 cards, the hand leaving two
\* cards of the input out
C19_Witness ==
    /\ pc = "returned"
    /\ Len(cards) = 7
    /\ result.err = ""
    /\ GetHandRank(result.value) = THREE_OF_A_KIND
    /\ Cardinality(CardSet(cards) \ CardSet(result.hand)) = 2

-----------------------------------------------------------------------------
(* One list of cards, and the list reordered with its suits permuted *)

\* the permutations of the four suits that move at most MovedSuits suits
MovedSuits == 2

SuitPermutations ==
    {p \in [Suits -> Suits] :
        /\ \A a, b \in Suits : a # b => p[a] # p[b]
        /\ Cardinality({s \in Suits : p[s] # s}) <= MovedSuits}

\* the cards of cs with the suits permuted
WithSuits(cs, p) == [i \in 1..Len(cs) |-> PlayingCard(cs[i].rank, p[cs[i].suit])]

\* the orders a list is given in: as it is, reversed, and cut after CutAt cards
CutAt == 2

Reorders(cs) == {cs, Reverse(cs), Drop(cs, CutAt) \o Take(cs, CutAt)}

SameInputs == UNION {Combinations(WideDeck, 1, k) : k \in 5..7}

InitSame ==
    /\ CacheIdle
    /\ GameIdle
    /\ SimIdle
    /\ PackIdle
    /\ DrawIdle
    /\ TallyIdle
    /\ MasksIdle
    /\ starting_deck = FullDeck
    /\ cards \in SameInputs
    /\ other \in UNION {Reorders(WithSuits(cards, p)) : p \in SuitPermutations}
    /\ result = None
    /\ otherResult = None
    /\ pc = "ready"

SpecSame == InitSame /\ [][NextPair]_vars

\* C20: the value returned by _eval_hand for 5 to 7 distinct cards depends
\* only on the set of cards and not on suits beyond flush grouping: it is
\* unchanged by any reordering of the input list and by any permutation of
\* the four suits applied uniformly to all cards.
C20_OrderAndSuitInvariant ==
    pc = "compared" =>
        /\ result.err = "" /\ otherResult.err = ""
        /\ result.value = otherResult.value

\* C20 witness: a flush of spades out of 7 cards, and the same value for the
\* list reversed with spades and hearts exchanged, a flush of hearts
C20_Witness ==
    /\ pc = "compared"
    /\ Len(cards) = 7
    /\ GetHandRank(result.value) = FLUSH
    /\ GetHandRank(otherResult.value) = FLUSH
    /\ \A c \in CardSet(result.hand) : c.suit = SPADE
    /\ \A c \in CardSet(otherResult.hand) : c.suit = HEART
    /\ other = Reverse(WithSuits(cards, [s \in Suits |->
                   IF s = SPADE THEN HEART ELSE IF s = HEART THEN SPADE ELSE s]))

-----------------------------------------------------------------------------
(* PokerSimulator.run on the 52-card deck: the trials and their tallies *)

\* a faulty increment that forgets the count the key held
IncrementAfresh(d, k) == Put(d, k, 1)

\* d[k] += 1 on a defaultdict(int)
Increment(d, k) == Put(d, k, (IF k \in DOMAIN d THEN d[k] ELSE 0) + 1)

RECURSIVE SumOver(_, _)
SumOver(d, keys) ==
    IF keys = {} THEN 0
    ELSE LET k == CHOOSE x \in keys : TRUE
         IN  d[k] + SumOver(d, keys \ {k})

\* sum(d.values())
SumOf(d) == SumOver(d, DOMAIN d)

\* run(iterations) is called with 0..MaxIterations iterations on a simulator
\* of 0..TallySeats players
MaxIterations == 2
TallySeats == 3

\* the decks of the trials: the orders of Shuffles and the sorted deck
\* reversed, which deals two or three players hands of one value (a draw)
TallyShuffles == Shuffles \cup {Reverse(FullDeck)}

\* PokerSimulator(number_of_players, use_precomputed_values=False) is
\* constructed and run(iterations) called
InitTally ==
    /\ MasksIdle
    /\ GameIdle
    /\ CacheIdle
    /\ PackIdle
    /\ DrawIdle
    /\ starting_deck = FullDeck
    /\ cards = <<>> /\ other = <<>> /\ result = None /\ otherResult = None
    /\ deck_cards = <<>>
    /\ number_of_players \in 0..TallySeats
    /\ iterations \in 0..MaxIterations
    /\ iter_count = 0
    /\ win_count = 0 /\ draw_count = 0
    /\ ranks = EmptyValues /\ opening_hands = EmptyValues
    /\ pc = "ready"

\* the loop of run is at its head: precompute has returned, or a pass has
\* ended
AtLoopHead == PrecomputeReturned /\ pc \in {"ready", "tallied"}

\* a pass of the loop begins:
\* simulation = PokerSimulation(self.number_of_players, evaluator=evaluator)
\* with a fresh shuffled deck, and simulation.run() is called
StartPass ==
    /\ AtLoopHead
    /\ iter_count < iterations
    /\ deck_cards' \in TallyShuffles
    /\ players' = <<>>
    /\ community_cards' = <<>>
    /\ results' = EmptyValues
    /\ index' = 0
    /\ game' = NoGame
    /\ pc' = "run"
    /\ UNCHANGED <<starting_deck, tallyVars, drawn_cards, packVars, evalVars, maskVars,
                   cacheVars, number_of_players>>

\* the rest of the pass, once simulation.run() has returned its result (an
\* exception of it ends the run): the draw or the win is counted, a win
\* under the mask of the winner's hole cards too, and the category of the
\* hand, HandRank(rank) raising ValueError for a rank that is no category
Tally ==
    /\ pc = "evaluated"
    /\ game.err = ""
    /\ LET hand_rank == GetHandRank(game.hand_value)
       IN  IF IsDraw(game)
           THEN /\ draw_count' = draw_count + 1
                /\ UNCHANGED <<win_count, opening_hands>>
                /\ IF hand_rank \in HIGH_CARD..ROYAL_FLUSH
                   THEN /\ ranks' = Increment(ranks, hand_rank)
                        /\ iter_count' = iter_count + 1
                        /\ pc' = "tallied"
                   ELSE pc' = "ValueError" /\ UNCHANGED <<ranks, iter_count>>
           ELSE /\ win_count' = win_count + 1
                /\ opening_hands' =
                       Increment(opening_hands, HashCards(game.winning_hole_cards[1]))
                /\ UNCHANGED draw_count
                /\ IF hand_rank \in HIGH_CARD..ROYAL_FLUSH
                   THEN /\ ranks' = Increment(ranks, hand_rank)
                        /\ iter_count' = iter_count + 1
                        /\ pc' = "tallied"
                   ELSE pc' = "ValueError" /\ UNCHANGED <<ranks, iter_count>>
    /\ UNCHANGED <<starting_deck, iterations, drawn_cards, packVars, evalVars, maskVars,
                   cacheVars, gameVars, simVars>>

\* range(iterations) is exhausted: the loop ends and run goes on to print
EndLoop ==
    /\ AtLoopHead
    /\ iter_count >= iterations
    /\ pc' = "done"
    /\ UNCHANGED <<starting_deck, tallyVars, drawn_cards, packVars, evalVars, maskVars,
                   cacheVars, gameVars, simVars>>

NextTally ==
    \/ PrecomputeCall
    \/ StartPass
    \/ DealHands
    \/ DealCommunityCards
    \/ RunEvaluate
    \/ EvaluatePlayer
    \/ EvaluateReturn
    \/ Tally
    \/ EndLoop

SpecTally == InitTally /\ [][NextTally]_vars

\* C21: aggregation invariant of PokerSimulator.run: after k completed
\* trials, win_count + draw_count = k and the hand-category frequency counts
\* sum to k; each trial increments exactly one of the win/draw counters and
\* exactly one category counter, and a run that does not fail completes
\* exactly the requested number of trials.
C21_Aggregation ==
    /\ [](/\ win_count + draw_count = iter_count
          /\ SumOf(ranks) = iter_count
          /\ DOMAIN ranks \subseteq HIGH_CARD..ROYAL_FLUSH
          /\ iter_count <= iterations
          /\ pc = "done" => iter_count = iterations)
    /\ [][pc = "evaluated" /\ pc' # "evaluated" =>
            /\ iter_count' = iter_count + 1
            /\ \/ win_count' = win_count + 1 /\ draw_count' = draw_count
               \/ win_count' = win_count /\ draw_count' = draw_count + 1
            /\ \E c \in HIGH_CARD..ROYAL_FLUSH :
                   /\ c \in DOMAIN ranks'
                   /\ ranks'[c] = (IF c \in DOMAIN ranks THEN ranks[c] ELSE 0) + 1
                   /\ \A o \in DOMAIN ranks' \ {c} : o \in DOMAIN ranks /\ ranks'[o] = ranks[o]
                   /\ DOMAIN ranks \subseteq DOMAIN ranks']_vars

\* C21 witness: a run of two trials has ended, one trial won and one drawn,
\* on hands of two categories
C21_Witness ==
    /\ pc = "done"
    /\ iterations = 2
    /\ iter_count = 2
    /\ win_count = 1 /\ draw_count = 1
    /\ Cardinality(DOMAIN ranks) = 2
    /\ SumOf(opening_hands) = 1


=============================================================================
